---- MODULE Spec2Model ----
(***************************************************************************)
(* Model of the order-placement programs of binance-futures-test:         *)
(*   src/src/testnet/order.py         (testnet entry point)               *)
(*   src/src/mainnet/orderExample.py  (mainnet entry point)               *)
(*                                                                         *)
(* Numbers.  The programs compute with decimal quantities.  They are       *)
(* modelled exactly, as integers counted in fixed units:                   *)
(*   a price or tick size p stands for p / PriceScale,                     *)
(*   a quantity or step size q stands for q / QtyScale,                    *)
(*   USDT amounts (usdt_amount, min_notional, balance) are whole USDT.     *)
(* A value that is not on the unit grid (usdt_amount / current_price,      *)
(* current_price * 0.99) is carried as an exact fraction [n, d].           *)
(* Binary floating-point error is outside the model.                       *)
(*                                                                         *)
(* The mainnet class BinanceFuturesClient calls _load_trading_parameters,  *)
(* _get_symbol_info, _set_leverage, _get_current_price,                    *)
(* _calculate_quantity and place_order but does not define them; the       *)
(* model binds these calls to the methods of the same names of the         *)
(* testnet class, which the mainnet file was derived from.  SymbolInfo     *)
(* (the rounding) is defined by both files and modelled per file.          *)
(***************************************************************************)
EXTENDS Integers, Sequences, FiniteSets

VARIABLES
    \* ---- one run of an entry point (specification Spec) ----
    entry,              \* "mainnet" (orderExample.py) or "testnet" (order.py)
    pc,                 \* position of the run
    trading_params,     \* self.trading_params
    symbol_info,        \* self.symbol_info
    current_price,      \* current_price of prepare_and_place_order
    order_params,       \* order_params of prepare_and_place_order
    confirmed_mainnet,  \* whether self._confirmed_mainnet exists
    calls,              \* exchange calls issued so far, in order
    sent,               \* the params given to client.new_order
    prompts,            \* input() prompts issued so far, with the text typed
    balance,            \* the account's available USDT balance on the exchange
    leverage,           \* the account's leverage setting on the exchange
    error,              \* the exception that ended the run, "none" otherwise
    failed_call,        \* the exchange call that failed, "none" otherwise
    exit_code,          \* process exit code, -1 while the run is going
    \* ---- the pure functions, applied to drawn inputs ----
    rin, rout,          \* SpecRound: input and results of the rounding
    qin, qout           \* SpecQty: input and result of _calculate_quantity

run_vars == <<entry, pc, trading_params, symbol_info, current_price,
              order_params, confirmed_mainnet, calls, sent, prompts, balance,
              leverage, error, failed_call, exit_code>>
vars == <<entry, pc, trading_params, symbol_info, current_price,
          order_params, confirmed_mainnet, calls, sent, prompts, balance,
          leverage, error, failed_call, exit_code, rin, rout, qin, qout>>

---------------------------------------------------------------------------
\* Exact arithmetic

RECURSIVE Pow10(_)
Pow10(e) == IF e = 0 THEN 1 ELSE 10 * Pow10(e - 1)

\* units per 1.0 of price and of quantity
PriceScale == Pow10(1)
QtyScale == Pow10(4)
\* units of quantity * price per 1 USDT
NotionalScale == PriceScale * QtyScale

\* the largest exponent of a grid size, in units
GridExponents == 0..4

\* log10 of a power of ten
ExponentOf(g) == CHOOSE e \in GridExponents : Pow10(e) = g

Frac(n, d) == [n |-> n, d |-> d]

Floor(n, d) == n \div d
Ceil(n, d) == (n + d - 1) \div d

\* Python 3 round(n / d): to the nearest integer, ties to the even one
RoundHalfEven(n, d) ==
    LET q == n \div d
        r == n % d
    IN  IF 2 * r < d THEN q
        ELSE IF 2 * r > d THEN q + 1
        ELSE IF q % 2 = 0 THEN q ELSE q + 1

Nets == {"mainnet", "testnet"}

---------------------------------------------------------------------------
\* SymbolInfo.round_step_size / round_tick_size
\* x is a fraction of units, the grid size is a power of ten of units, the
\* result is a whole number of units.

\* mainnet: Decimal(str(x)).quantize(Decimal(str(grid)).normalize(), ROUND_DOWN)
\* quantize keeps the digits down to the exponent of the normalized grid size
\* and drops the rest.
QuantizeDown(grid, x) ==
    LET unit == Pow10(ExponentOf(grid))
    IN  Floor(x.n, x.d * unit) * unit

\* a plausible slip: always move to the next grid point
RoundNextUp(grid, x) == (Floor(x.n, x.d * grid) + 1) * grid

\* testnet: precision = int(round(-math.log(grid, 10), 0))
\*          round(round(x / grid) * grid, precision)
RoundNearest(grid, x) ==
    LET unit == Pow10(ExponentOf(grid))
        v == RoundHalfEven(x.n, x.d * grid) * grid
    IN  RoundHalfEven(v, unit) * unit

round_step_size_mainnet(step_size, quantity) == QuantizeDown(step_size, quantity)
round_tick_size_mainnet(tick_size, price) == QuantizeDown(tick_size, price)
round_step_size_testnet(step_size, quantity) == RoundNearest(step_size, quantity)
round_tick_size_testnet(tick_size, price) == RoundNearest(tick_size, price)

round_step_size(net, step_size, quantity) ==
    IF net = "mainnet" THEN round_step_size_mainnet(step_size, quantity)
    ELSE round_step_size_testnet(step_size, quantity)

round_tick_size(net, tick_size, price) ==
    IF net = "mainnet" THEN round_tick_size_mainnet(tick_size, price)
    ELSE round_tick_size_testnet(tick_size, price)

---------------------------------------------------------------------------
\* BinanceFuturesClient._calculate_quantity

\* the literal 1000 of math.ceil(min_notional / current_price * 1000) / 1000
CeilFactor == 1000

\* quantity * price, in units of 1 / NotionalScale USDT
Notional(quantity, price) == quantity * price

\* the final re-computation: ceil(min_notional / current_price * 1000) / 1000,
\* as a number of quantity units
ceil_quantity(min_notional, price) ==
    Ceil(min_notional * PriceScale * CeilFactor, price) * (QtyScale \div CeilFactor)

\* a plausible slip: the amount is used as given
keep_amount(info, usdt_amount) == usdt_amount

\* step 1: an amount below min_notional is raised to min_notional
raise_to_min_notional(info, usdt_amount) ==
    IF usdt_amount < info.min_notional THEN info.min_notional ELSE usdt_amount

\* raw_quantity = usdt_amount / current_price, in quantity units
raw_quantity(usdt_amount, price) == Frac(usdt_amount * NotionalScale, price)

\* raw_quantity < min_qty
below_min_qty(info, raw) == Floor(raw.n, raw.d) < info.min_qty

\* adjusted_usdt < min_notional, with adjusted_usdt = min_qty * current_price
min_qty_below_min_notional(info, price) ==
    Notional(info.min_qty, price) < info.min_notional * NotionalScale

\* The result is [raised, quantity, priority_warning]: raised is TRUE when the
\* function ends in an exception (the only one is the division by a zero
\* current_price); priority_warning is TRUE when the inner branch of the
\* min_qty check ran (raw_quantity = min_notional / current_price, with
\* its warning "Adjusted quantity to meet minimum notional requirement").
_calculate_quantity(net, info, usdt_amount_in, price) ==
    LET usdt_amount == raise_to_min_notional(info, usdt_amount_in)
        raw0 == raw_quantity(usdt_amount, price)
        priority == below_min_qty(info, raw0)
                    /\ min_qty_below_min_notional(info, price)
        raw1 == IF below_min_qty(info, raw0)
                THEN IF min_qty_below_min_notional(info, price)
                     THEN Frac(info.min_notional * NotionalScale, price)
                     ELSE Frac(info.min_qty, 1)
                ELSE raw0
        raw2 == IF Ceil(raw1.n, raw1.d) > info.max_qty
                THEN Frac(info.max_qty, 1) ELSE raw1
        final_quantity == round_step_size(net, info.step_size, raw2)
        notional_value == Notional(final_quantity, price)
    IN  IF price = 0
        THEN [raised |-> TRUE, quantity |-> 0, priority_warning |-> FALSE]
        ELSE IF notional_value < info.min_notional * NotionalScale
        THEN [raised |-> FALSE,
              quantity |-> ceil_quantity(info.min_notional, price),
              priority_warning |-> priority]
        ELSE [raised |-> FALSE, quantity |-> final_quantity,
              priority_warning |-> priority]

---------------------------------------------------------------------------
\* Values of the variables a specification does not use

NoValue == [none |-> TRUE]

RunIdle ==
    /\ entry = "none"
    /\ pc = "idle"
    /\ trading_params = NoValue
    /\ symbol_info = NoValue
    /\ current_price = 0
    /\ order_params = NoValue
    /\ confirmed_mainnet = FALSE
    /\ calls = <<>>
    /\ sent = NoValue
    /\ prompts = <<>>
    /\ balance = 0
    /\ leverage = 0
    /\ error = "none"
    /\ failed_call = "none"
    /\ exit_code = -1

RoundIdle == rin = NoValue /\ rout = <<>>
QtyIdle == qin = NoValue /\ qout = <<>>

---------------------------------------------------------------------------
\* SpecRound: round_step_size / round_tick_size of either file applied to a
\* drawn value, and then to its own result.

MaxGridExp == 2
MaxNum == 250
MaxDen == 3

RoundGrids == {Pow10(e) : e \in 0..MaxGridExp}

RoundInit ==
    /\ RunIdle
    /\ QtyIdle
    /\ rin \in [net : Nets, op : {"step", "tick"}, grid : RoundGrids,
                x : [n : 0..MaxNum, d : 1..MaxDen]]
    /\ rout = <<>>

ApplyRound(in, x) ==
    IF in.op = "step" THEN round_step_size(in.net, in.grid, x)
    ELSE round_tick_size(in.net, in.grid, x)

RoundOnce ==
    /\ rin # NoValue
    /\ rout = <<>>
    /\ rout' = <<ApplyRound(rin, rin.x)>>
    /\ UNCHANGED <<run_vars, rin, qin, qout>>

RoundAgain ==
    /\ Len(rout) = 1
    /\ rout' = Append(rout, ApplyRound(rin, Frac(rout[1], 1)))
    /\ UNCHANGED <<run_vars, rin, qin, qout>>

RoundNext == RoundOnce \/ RoundAgain

SpecRound == RoundInit /\ [][RoundNext]_vars

---------------------------------------------------------------------------
\* SpecQty: _calculate_quantity applied to drawn symbol rules, amount and price.

MaxQtySteps == 3
MaxUsdt == 6
MaxMant == 7

StepSizes == {Pow10(e) : e \in GridExponents}
MinNotionals == {1, 5}
PriceExponents == 0..3
QtyPrices == {m * Pow10(e) : m \in 0..MaxMant, e \in PriceExponents}

\* symbol rules with min_qty <= max_qty, both multiples of step_size
QtyRules ==
    {[tick_size |-> 1, step_size |-> s, min_qty |-> a * s, max_qty |-> b * s,
      min_notional |-> mn] :
        s \in StepSizes, a \in 1..2, b \in 2..MaxQtySteps, mn \in MinNotionals}

\* the worked example: stepSize 0.001, minQty 0.001, maxQty 1000,
\* minNotional 5, markPrice 50000, notionalAmount 10
ExampleInputs ==
    {[net |-> n,
      info |-> [tick_size |-> 1, step_size |-> 10, min_qty |-> 10,
                max_qty |-> 1000 * QtyScale, min_notional |-> 5],
      usdt_amount |-> 10,
      price |-> 50000 * PriceScale] : n \in Nets}

QtyInit ==
    /\ RunIdle
    /\ RoundIdle
    /\ qin \in [net : Nets, info : QtyRules, usdt_amount : 1..MaxUsdt,
                price : QtyPrices] \cup ExampleInputs
    /\ qout = <<>>

CalculateQuantity ==
    /\ qin # NoValue
    /\ qout = <<>>
    /\ qout' = <<_calculate_quantity(qin.net, qin.info, qin.usdt_amount, qin.price)>>
    /\ UNCHANGED <<run_vars, rin, rout, qin>>

QtyNext == CalculateQuantity

SpecQty == QtyInit /\ [][QtyNext]_vars

---------------------------------------------------------------------------
\* Spec: one run of an entry point, __main__ of order.py or of orderExample.py

MaxLeverage == 2

Leverages == 1..MaxLeverage
SideLabels == {"LONG", "SHORT"}
OrderTypes == {"MARKET", "LIMIT"}
RunAmounts == {3, 10}
RunBalances == {5, 100}
\* mark prices 0.4, 1.0, 10.5 and 100.0
RunPrices == {4, 10, 105, 1000}
\* what the user may type at a prompt
Answers == {"YES", "CONFIRM", "yes", ""}

\* tick 0.1, step 0.001, quantities 0.001 .. 1000, and
\* tick 1.0, step 1.0, quantities 1 .. 5
RunRules ==
    {[tick_size |-> 1, step_size |-> 10, min_qty |-> 10,
      max_qty |-> 1000 * QtyScale, min_notional |-> 5],
     [tick_size |-> 10, step_size |-> QtyScale, min_qty |-> QtyScale,
      max_qty |-> 5 * QtyScale, min_notional |-> 5]}

\* __main__: BinanceFuturesClient(is_testnet=False) / (is_testnet=True)
is_testnet(net) == net = "testnet"

\* TradingParameters.__init__
TradingParameters(lev, side_label, order_type, usdt_amount, reduce_only) ==
    [symbol |-> "SYMBOL",
     leverage |-> lev,
     side |-> IF side_label = "LONG" THEN "BUY" ELSE "SELL",
     order_type |-> order_type,
     usdt_amount |-> usdt_amount,
     reduce_only |-> reduce_only]

\* __main__, except Exception: orderExample.py ends in sys.exit(1); order.py
\* prints the error and falls off the end of the script.
exit_on_exception_mainnet == 1
exit_on_exception_testnet == 0
exit_on_exception(net) ==
    IF net = "mainnet" THEN exit_on_exception_mainnet
    ELSE exit_on_exception_testnet

\* sys.exit("Execution cancelled"): SystemExit is no Exception, the handler of
\* __main__ does not catch it, and a string argument gives exit status 1.
exit_on_system_exit == 1

\* an exception reaches __main__
Raise(e) ==
    /\ pc' = "done"
    /\ error' = e
    /\ exit_code' = exit_on_exception(entry)
    /\ UNCHANGED failed_call

\* an exchange call fails and its exception reaches __main__
RaiseFrom(call, e) ==
    /\ pc' = "done"
    /\ error' = e
    /\ exit_code' = exit_on_exception(entry)
    /\ failed_call' = call

Goto(next) ==
    /\ pc' = next
    /\ UNCHANGED <<error, failed_call, exit_code>>

Call(name) == calls' = Append(calls, name)

RunInit ==
    /\ entry \in Nets
    /\ pc = IF entry = "mainnet" THEN "validate_environment" ELSE "load_configs"
    /\ trading_params = NoValue
    /\ symbol_info = NoValue
    /\ current_price = 0
    /\ order_params = NoValue
    /\ confirmed_mainnet = FALSE
    /\ calls = <<>>
    /\ sent = NoValue
    /\ prompts = <<>>
    /\ balance \in RunBalances
    /\ leverage \in Leverages
    /\ error = "none"
    /\ failed_call = "none"
    /\ exit_code = -1
    /\ RoundIdle
    /\ QtyIdle

harness_vars == <<rin, rout, qin, qout>>

\* orderExample.py _validate_environment
ValidateEnvironment ==
    /\ pc = "validate_environment"
    /\ \E files_exist \in BOOLEAN :
          IF files_exist THEN Goto("load_configs")
          ELSE Raise("FileNotFoundError")
    /\ UNCHANGED <<entry, trading_params, symbol_info, current_price,
                   order_params, confirmed_mainnet, calls, sent, prompts,
                   balance, leverage, harness_vars>>

\* _load_configs: order.py wants the file, orderExample.py wants both keys
LoadConfigs ==
    /\ pc = "load_configs"
    /\ \E ok \in BOOLEAN :
          IF ok THEN Goto("load_trading_parameters")
          ELSE Raise(IF entry = "mainnet" THEN "ValueError" ELSE "FileNotFoundError")
    /\ UNCHANGED <<entry, trading_params, symbol_info, current_price,
                   order_params, confirmed_mainnet, calls, sent, prompts,
                   balance, leverage, harness_vars>>

\* _load_trading_parameters
LoadTradingParameters ==
    /\ pc = "load_trading_parameters"
    /\ \E file_exists \in BOOLEAN :
          IF file_exists
          THEN /\ \E lev \in Leverages, label \in SideLabels, type \in OrderTypes,
                     amount \in RunAmounts, reduce_only \in BOOLEAN :
                     trading_params' =
                         TradingParameters(lev, label, type, amount, reduce_only)
               /\ Goto("initialize_client")
          ELSE /\ Raise("FileNotFoundError")
               /\ UNCHANGED trading_params
    /\ UNCHANGED <<entry, symbol_info, current_price, order_params,
                   confirmed_mainnet, calls, sent, prompts, balance, leverage,
                   harness_vars>>

\* _initialize_client: orderExample.py checks the credentials with
\* client.account(); order.py only builds the client.
InitializeClient ==
    /\ pc = "initialize_client"
    /\ IF entry = "mainnet"
       THEN /\ Call("account")
            /\ \E ok \in BOOLEAN :
                  IF ok THEN Goto("get_symbol_info")
                  ELSE RaiseFrom("account", "ValueError")
       ELSE /\ UNCHANGED calls
            /\ Goto("get_symbol_info")
    /\ UNCHANGED <<entry, trading_params, symbol_info, current_price,
                   order_params, confirmed_mainnet, sent, prompts, balance,
                   leverage, harness_vars>>

\* _get_symbol_info, and the end of __init__
GetSymbolInfo ==
    /\ pc = "get_symbol_info"
    /\ Call("exchange_info")
    /\ \E outcome \in {"ok", "ClientError", "not_found"} :
          IF outcome = "ok"
          THEN /\ symbol_info' \in RunRules
               /\ Goto(IF is_testnet(entry) THEN "set_leverage"
                       ELSE "confirm_mainnet_execution")
          ELSE /\ IF outcome = "not_found" THEN Raise("ValueError")
                  ELSE RaiseFrom("exchange_info", "ClientError")
               /\ UNCHANGED symbol_info
    /\ UNCHANGED <<entry, trading_params, current_price, order_params,
                   confirmed_mainnet, sent, prompts, balance, leverage,
                   harness_vars>>

\* a plausible slip: the typed text is compared without regard to case
confirms_execution_any_case(answer) == answer \in {"YES", "yes"}

\* orderExample.py _confirm_mainnet_execution: confirmation != "YES" cancels
confirms_execution(answer) == answer = "YES"

ConfirmMainnetExecution ==
    /\ pc = "confirm_mainnet_execution"
    /\ \E answer \in Answers :
          /\ prompts' = Append(prompts, [prompt |-> "YES", answer |-> answer])
          /\ IF confirms_execution(answer)
             THEN Goto("check_balance")
             ELSE /\ pc' = "done"
                  /\ error' = "SystemExit"
                  /\ exit_code' = exit_on_system_exit
                  /\ UNCHANGED failed_call
    /\ UNCHANGED <<entry, trading_params, symbol_info, current_price,
                   order_params, confirmed_mainnet, calls, sent, balance,
                   leverage, harness_vars>>

\* orderExample.py prepare_and_place_order: the balance check
insufficient_balance(available_balance, usdt_amount) ==
    available_balance < usdt_amount

CheckBalance ==
    /\ pc = "check_balance"
    /\ Call("account")
    /\ \E ok \in BOOLEAN :
          IF ok
          THEN IF insufficient_balance(balance, trading_params.usdt_amount)
               THEN Raise("ValueError")
               ELSE Goto("set_leverage")
          ELSE RaiseFrom("account", "ClientError")
    /\ UNCHANGED <<entry, trading_params, symbol_info, current_price,
                   order_params, confirmed_mainnet, sent, prompts, balance,
                   leverage, harness_vars>>

\* _set_leverage, except ClientError: the error is logged and raised again
\* a plausible slip: the handler logs the error and forgets to raise it again
leverage_error_swallowed ==
    /\ pc' = "get_current_price"
    /\ failed_call' = "change_leverage"
    /\ UNCHANGED <<error, exit_code>>

leverage_error == RaiseFrom("change_leverage", "ClientError")

SetLeverage ==
    /\ pc = "set_leverage"
    /\ Call("change_leverage")
    /\ \E ok \in BOOLEAN :
          IF ok
          THEN /\ leverage' = trading_params.leverage
               /\ Goto("get_current_price")
          ELSE /\ leverage_error
               /\ UNCHANGED leverage
    /\ UNCHANGED <<entry, trading_params, symbol_info, current_price,
                   order_params, confirmed_mainnet, sent, prompts, balance,
                   harness_vars>>

\* _get_current_price
GetCurrentPrice ==
    /\ pc = "get_current_price"
    /\ Call("mark_price")
    /\ \E ok \in BOOLEAN :
          IF ok
          THEN /\ current_price' \in RunPrices
               /\ Goto("build_order")
          ELSE /\ RaiseFrom("mark_price", "ClientError")
               /\ UNCHANGED current_price
    /\ UNCHANGED <<entry, trading_params, symbol_info, order_params,
                   confirmed_mainnet, sent, prompts, balance, leverage,
                   harness_vars>>

\* adjustment = 0.99 if side == "BUY" else 1.01, in hundredths
BuyAdjustment == 99
SellAdjustment == 101
AdjustmentDenominator == 100

\* raw_price = current_price * adjustment; price = round_tick_size(raw_price)
limit_price(net, info, side, price) ==
    LET adjustment == IF side = "BUY" THEN BuyAdjustment ELSE SellAdjustment
        raw_price == Frac(price * adjustment, AdjustmentDenominator)
    IN  round_tick_size(net, info.tick_size, raw_price)

\* "if price:" is false for None and for 0.0
price_is_truthy(price_is_none, price) == ~price_is_none /\ price # 0

\* the order_params dict of prepare_and_place_order; a key the code does not
\* set is no field of the record
build_order_params(net, params, info, price, quantity) ==
    LET base == [symbol |-> params.symbol,
                 side |-> params.side,
                 order_type |-> params.order_type,
                 quantity |-> quantity,
                 reduce_only |-> params.reduce_only]
        is_limit == params.order_type = "LIMIT"
        limit == IF is_limit THEN limit_price(net, info, params.side, price) ELSE 0
    IN  IF price_is_truthy(~is_limit, limit)
        THEN [symbol |-> base.symbol, side |-> base.side,
              order_type |-> base.order_type, quantity |-> base.quantity,
              reduce_only |-> base.reduce_only,
              price |-> limit, time_in_force |-> "GTC"]
        ELSE base

\* orderExample.py: not hasattr(self, '_confirmed_mainnet') and
\* not self.client.base_url.startswith('https://testnet')
needs_order_confirmation(net, confirmed) == ~confirmed /\ ~is_testnet(net)

\* prepare_and_place_order from the quantity to the logged order_params
BuildOrder ==
    /\ pc = "build_order"
    /\ LET q == _calculate_quantity(entry, symbol_info,
                                    trading_params.usdt_amount, current_price)
       IN  IF q.raised
           THEN /\ Raise("ZeroDivisionError")
                /\ UNCHANGED order_params
           ELSE /\ order_params' = build_order_params(entry, trading_params,
                                       symbol_info, current_price, q.quantity)
                /\ Goto(IF entry = "mainnet"
                           /\ needs_order_confirmation(entry, confirmed_mainnet)
                        THEN "confirm_order" ELSE "place_order")
    /\ UNCHANGED <<entry, trading_params, symbol_info, current_price,
                   confirmed_mainnet, calls, sent, prompts, balance, leverage,
                   harness_vars>>

\* a plausible slip: the text of the first prompt is accepted here too
confirms_order_or_yes(answer) == answer \in {"CONFIRM", "YES"}

\* orderExample.py prepare_and_place_order: confirmation != "CONFIRM" cancels
confirms_order(answer) == answer = "CONFIRM"

ConfirmOrder ==
    /\ pc = "confirm_order"
    /\ \E answer \in Answers :
          /\ prompts' = Append(prompts, [prompt |-> "CONFIRM", answer |-> answer])
          /\ IF confirms_order(answer)
             THEN /\ confirmed_mainnet' = TRUE
                  /\ Goto("place_order")
             ELSE /\ Raise("ValueError")
                  /\ UNCHANGED confirmed_mainnet
    /\ UNCHANGED <<entry, trading_params, symbol_info, current_price,
                   order_params, calls, sent, balance, leverage, harness_vars>>

\* place_order(..., price: Optional[float] = None, time_in_force = "GTC"):
\* the values of the two parameters order_params may leave out.  None is
\* written as a number no price has.
NonePrice == -1
price_argument(op) == IF "price" \in DOMAIN op THEN op.price ELSE NonePrice
time_in_force_argument(op) ==
    IF "time_in_force" \in DOMAIN op THEN op.time_in_force ELSE "GTC"

\* a plausible slip: the check of the price is left out
price_never_missing(op) == FALSE

\* place_order: a LIMIT order without a price is refused
price_missing(op) == op.order_type = "LIMIT" /\ price_argument(op) = NonePrice

\* the params of client.new_order(**params)
new_order_params(op) ==
    IF op.order_type = "LIMIT"
    THEN [symbol |-> op.symbol, side |-> op.side, type |-> op.order_type,
          quantity |-> op.quantity, reduceOnly |-> op.reduce_only,
          price |-> price_argument(op),
          timeInForce |-> time_in_force_argument(op)]
    ELSE [symbol |-> op.symbol, side |-> op.side, type |-> op.order_type,
          quantity |-> op.quantity, reduceOnly |-> op.reduce_only]

PlaceOrder ==
    /\ pc = "place_order"
    /\ IF price_missing(order_params)
       THEN /\ Raise("ValueError")
            /\ UNCHANGED <<calls, sent>>
       ELSE /\ Call("new_order")
            /\ sent' = new_order_params(order_params)
            /\ \E ok \in BOOLEAN :
                  IF ok THEN Goto("get_position_info")
                  ELSE RaiseFrom("new_order", "ClientError")
    /\ UNCHANGED <<entry, trading_params, symbol_info, current_price,
                   order_params, confirmed_mainnet, prompts, balance, leverage,
                   harness_vars>>

\* get_position_info, and the end of __main__
GetPositionInfo ==
    /\ pc = "get_position_info"
    /\ Call("get_position_risk")
    /\ \E ok \in BOOLEAN :
          IF ok
          THEN /\ pc' = "done"
               /\ exit_code' = 0
               /\ UNCHANGED <<error, failed_call>>
          ELSE RaiseFrom("get_position_risk", "ClientError")
    /\ UNCHANGED <<entry, trading_params, symbol_info, current_price,
                   order_params, confirmed_mainnet, sent, prompts, balance,
                   leverage, harness_vars>>

Next ==
    \/ ValidateEnvironment
    \/ LoadConfigs
    \/ LoadTradingParameters
    \/ InitializeClient
    \/ GetSymbolInfo
    \/ ConfirmMainnetExecution
    \/ CheckBalance
    \/ SetLeverage
    \/ GetCurrentPrice
    \/ BuildOrder
    \/ ConfirmOrder
    \/ PlaceOrder
    \/ GetPositionInfo

Spec == RunInit /\ [][Next]_vars

---------------------------------------------------------------------------
\* Properties

Called(name) == \E i \in DOMAIN calls : calls[i] = name
CountCalls(name) == Cardinality({i \in DOMAIN calls : calls[i] = name})
IsPrefix(s, t) == Len(s) <= Len(t) /\ \A i \in DOMAIN s : s[i] = t[i]

\* C1: on the live endpoint client.new_order is called only after "YES" was
\* typed at the first prompt and "CONFIRM" at the second; any other text at
\* either prompt ends the run with no order submitted and a non-zero exit code;
\* on the test endpoint no prompt is issued.
C1_ConfirmedBeforeSubmit ==
    /\ (entry = "mainnet" /\ Called("new_order")) =>
          prompts = <<[prompt |-> "YES", answer |-> "YES"],
                      [prompt |-> "CONFIRM", answer |-> "CONFIRM"]>>
    /\ (entry = "mainnet"
        /\ \E i \in DOMAIN prompts : prompts[i].answer # prompts[i].prompt) =>
          /\ pc = "done"
          /\ ~Called("new_order")
          /\ exit_code \notin {-1, 0}
    /\ entry = "testnet" => prompts = <<>>

C1_Witness ==
    /\ entry = "mainnet"
    /\ Called("new_order")
    /\ Len(prompts) = 2

\* C2: for min_qty <= max_qty and positive amount and price,
\* _calculate_quantity of order.py returns a quantity within
\* [min_qty, max_qty] or raises.
C2_WithinBoundsOrError ==
    (Len(qout) = 1 /\ qin.net = "testnet" /\ qin.price > 0) =>
        \/ qout[1].raised
        \/ /\ qin.info.min_qty <= qout[1].quantity
           /\ qout[1].quantity <= qin.info.max_qty

\* some step multiple within [min_qty, max_qty] reaches min_notional
Feasible(info, price) ==
    \E k \in (info.min_qty \div info.step_size)..(info.max_qty \div info.step_size) :
        Notional(k * info.step_size, price) >= info.min_notional * NotionalScale

\* C3: in order.py, whenever a feasible quantity exists the returned quantity has
\* quantity * price >= min_notional, and when max_qty * price < min_notional
\* the function raises instead of returning a quantity.  (max_qty * price <
\* min_notional is written as max_qty < ceil(min_notional / price).)
C3_MinNotionalOrError ==
    (Len(qout) = 1 /\ qin.net = "testnet" /\ qin.price > 0) =>
        /\ Feasible(qin.info, qin.price) =>
              /\ ~qout[1].raised
              /\ Notional(qout[1].quantity, qin.price)
                     >= qin.info.min_notional * NotionalScale
        /\ qin.info.max_qty
               < Ceil(qin.info.min_notional * NotionalScale, qin.price) =>
              qout[1].raised

\* C4: every quantity _calculate_quantity of order.py returns is an exact
\* multiple of step_size.
C4_StepMultiple ==
    (Len(qout) = 1 /\ qin.net = "testnet" /\ ~qout[1].raised) =>
        qout[1].quantity % qin.info.step_size = 0

\* C5: round_tick_size and round_step_size of both files truncate downward:
\* the result is a multiple of the grid size, at most x, and less than one
\* grid size below x.
C5_TruncatesDown ==
    Len(rout) >= 1 =>
        /\ rout[1] % rin.grid = 0
        /\ rout[1] * rin.x.d <= rin.x.n
        /\ rin.x.n - rout[1] * rin.x.d < rin.grid * rin.x.d

\* C6: round_tick_size and round_step_size are idempotent, f(f(x)) = f(x).
C6_Idempotent == Len(rout) = 2 => rout[2] = rout[1]

C6_Witness ==
    /\ Len(rout) = 2
    /\ rout[1] > 0
    /\ rout[1] * rin.x.d # rin.x.n

\* C7: the order_params built for a LIMIT order carry
\* price = round_tick_size(current_price * 0.99) for BUY, * 1.01 for SELL, and
\* time_in_force GTC; for a MARKET order neither field; the quantity is the
\* result of _calculate_quantity and reduce_only is that of the parameters.
C7_OrderRequest ==
    order_params # NoValue =>
        /\ order_params.order_type = "LIMIT" =>
              /\ "price" \in DOMAIN order_params
              /\ "time_in_force" \in DOMAIN order_params
              /\ order_params.time_in_force = "GTC"
              /\ order_params.price =
                    round_tick_size(entry, symbol_info.tick_size,
                        Frac(current_price * (IF order_params.side = "BUY"
                                              THEN 99 ELSE 101), 100))
        /\ order_params.order_type = "MARKET" =>
              /\ "price" \notin DOMAIN order_params
              /\ "time_in_force" \notin DOMAIN order_params
        /\ order_params.quantity =
              _calculate_quantity(entry, symbol_info,
                  trading_params.usdt_amount, current_price).quantity
        /\ order_params.reduce_only = trading_params.reduce_only

\* C8: whenever the available balance is below the requested amount the run
\* ends in an error and neither change_leverage nor new_order is ever called.
C8_BalanceCheckedFirst ==
    (trading_params # NoValue /\ balance < trading_params.usdt_amount) =>
        /\ ~Called("change_leverage")
        /\ ~Called("new_order")
        /\ pc = "done" => error # "none"

\* the exchange calls of a run, in the order the run issues them
CallOrder == <<"exchange_info", "change_leverage", "mark_price", "new_order",
               "get_position_risk">>
ExchangeCalls == SelectSeq(calls, LAMBDA c : c # "account")

\* C9: no retry.  Each exchange call is issued at most once, in the order of
\* CallOrder; the first failing call ends the run and is the last call made;
\* new_order is never called after a failed change_leverage or mark_price; a
\* failed new_order leaves the leverage set, with no second change_leverage.
C9_NoRetry ==
    /\ IsPrefix(ExchangeCalls, CallOrder)
    /\ failed_call # "none" =>
          /\ pc = "done"
          /\ calls[Len(calls)] = failed_call
    /\ failed_call \in {"change_leverage", "mark_price"} => ~Called("new_order")
    /\ failed_call = "new_order" =>
          /\ leverage = trading_params.leverage
          /\ CountCalls("change_leverage") = 1

C9_Witness ==
    /\ failed_call = "new_order"
    /\ pc = "done"

\* C10: the exit code is 1 whenever an error occurred during the run and 0
\* only when the run succeeded.
C10_ExitCode ==
    pc = "done" =>
        /\ error # "none" => exit_code = 1
        /\ exit_code = 0 => error = "none"

\* C11: a LIMIT order never reaches client.new_order without a price.  While
\* the LIMIT order_params hold no price (None, or a limit price that rounded
\* to 0 and was dropped) new_order is not called and the run ends in an
\* error; every LIMIT request given to new_order carries a price and
\* timeInForce.
C11_LimitNeedsPrice ==
    /\ (order_params # NoValue /\ order_params.order_type = "LIMIT"
        /\ "price" \notin DOMAIN order_params) =>
          /\ ~Called("new_order")
          /\ sent = NoValue
          /\ pc = "done" => error # "none"
    /\ (sent # NoValue /\ sent.type = "LIMIT") =>
          /\ "price" \in DOMAIN sent
          /\ sent.price # NonePrice
          /\ "timeInForce" \in DOMAIN sent
          /\ sent.timeInForce = "GTC"

\* place_order itself refused the order: the run came past every prompt
C11_Witness ==
    /\ order_params # NoValue
    /\ order_params.order_type = "LIMIT"
    /\ "price" \notin DOMAIN order_params
    /\ pc = "done"
    /\ error = "ValueError"
    /\ entry = "mainnet" => confirmed_mainnet

\* C12: when usdt_amount / price < min_qty and min_qty * price >= min_notional
\* (min_qty a step multiple, min_qty <= max_qty) _calculate_quantity returns
\* exactly min_qty; the worked example gives 0.001.
C12_ReturnsMinQty ==
    (/\ Len(qout) = 1
     /\ qin.price > 0
     /\ Floor(qin.usdt_amount * NotionalScale, qin.price) < qin.info.min_qty
     /\ Notional(qin.info.min_qty, qin.price)
            >= qin.info.min_notional * NotionalScale) =>
        /\ ~qout[1].raised
        /\ qout[1].quantity = qin.info.min_qty

C12_Witness ==
    /\ qin \in ExampleInputs
    /\ qin.net = "testnet"
    /\ Len(qout) = 1
    /\ qout[1].quantity = 10

\* C13: in _calculate_quantity the inner branch of the min_qty check
\* (raw_quantity = min_notional / current_price) never runs: the amount was
\* raised to min_notional first, so raw_quantity < min_qty gives
\* min_qty * current_price > min_notional.
C13_PriorityBranchUnreachable ==
    (Len(qout) = 1 /\ qin.price > 0) => ~qout[1].priority_warning

\* the min_qty check itself is taken, with an amount that step 1 raised
C13_Witness ==
    /\ Len(qout) = 1
    /\ qin.price > 0
    /\ qin.usdt_amount < qin.info.min_notional
    /\ below_min_qty(qin.info,
           raw_quantity(raise_to_min_notional(qin.info, qin.usdt_amount), qin.price))
    /\ qout[1].quantity = qin.info.min_qty

\* a prompt of the mainnet run was answered with another text than it asks for
DeclinedAt(i) == Len(prompts) >= i /\ prompts[i].answer # prompts[i].prompt

\* C14 as stated: on a live-endpoint run in which either prompt is declined,
\* neither change_leverage nor new_order was called when the run ends.
C14_NoMutatingCallWhenDeclined ==
    (entry = "mainnet" /\ pc = "done" /\ (DeclinedAt(1) \/ DeclinedAt(2))) =>
        /\ ~Called("change_leverage")
        /\ ~Called("new_order")

\* C14 as amended: a declined first prompt ends the run before any mutating
\* call; a declined second prompt ends it with no order submitted, after
\* change_leverage was called and set the leverage of the parameters.
C14_DeclinedRun ==
    /\ (entry = "mainnet" /\ DeclinedAt(1)) =>
          /\ pc = "done"
          /\ ~Called("change_leverage")
          /\ ~Called("new_order")
    /\ (entry = "mainnet" /\ DeclinedAt(2)) =>
          /\ pc = "done"
          /\ ~Called("new_order")
          /\ CountCalls("change_leverage") = 1
          /\ leverage = trading_params.leverage

C14_Witness ==
    /\ entry = "mainnet"
    /\ pc = "done"
    /\ DeclinedAt(2)
    /\ error = "ValueError"

====
